---- MODULE Spec2Model ----
(***************************************************************************)
(* glt: a file-backed daily work-session log.                              *)
(*                                                                         *)
(* The data root holds                                                     *)
(*   <root>/working.json            the open DayCommit (at most one)       *)
(*   <root>/working/<d>[_<n>].json  sealed DayCommits of the running month *)
(*   <root>/<year>/<month>/<file>   the permanent archive                  *)
(* and the operations of src/lib.rs (init, add, rm, status, commit, reset, *)
(* log, push) act on it through the methods of App in src/app.rs.         *)
(*                                                                         *)
(* Spec and SpecSession take every operation as one atomic step of a       *)
(* single caller whose file system calls succeed, so that an operation     *)
(* ends with Ok, AlreadyInitialized, NotInitialized or a panic.  The       *)
(* further specifications take the operations apart into their file system *)
(* calls (concurrent callers, a crash, a failing copy) or apply the pure   *)
(* functions of the program (Time arithmetic, the totals of log_message)   *)
(* to drawn inputs.                                                        *)
(***************************************************************************)
EXTENDS Integers, Sequences, FiniteSets, TLC

VARIABLES
    working_json,   \* Option<DayCommit>: the content of <root>/working.json;
                    \* Some(None) is a file that exists and holds no record
    working_dir,    \* Option<[file name -> DayCommit]>: <root>/working/
    archive,        \* [<<year, month, file name>> -> DayCommit]
    last,           \* the last call: operation, arguments, outcome
    torn,           \* the files of <root>/working/ and of the archive that
                    \* exist and hold no record (created and not written, or
                    \* written over): they do not decode
    procs,          \* [caller -> the call it is in the middle of]
    calc            \* input and result of a pure function

store == <<working_json, working_dir, archive>>
vars == <<working_json, working_dir, archive, last, torn, procs, calc>>

(***************************************************************************)
(* Bounds of the exploration.                                              *)
(***************************************************************************)
MaxReq == 2         \* longest name list handed to add and rm in SpecSession
MaxPart == 3        \* SpecSession explores add while the list stays this short
MaxFiles == 3       \* Spec explores commit while fewer files are stored
MaxHour == 2        \* SpecTime draws Times of the hours 0..MaxHour
MaxRecs == 2        \* SpecLog draws this many records at most
MaxFault == 2       \* SpecFault explores commit while fewer files are stored
MaxWords == 3       \* SpecText draws texts of this many words after the first

(***************************************************************************)
(* Values.                                                                 *)
(***************************************************************************)
None == <<>>
Some(x) == <<x>>
IsSome(o) == o # None
Unwrap(o) == o[1]

\* Date(year, month, day) and Time(hour, minute) are tuple structs.  The
\* clock reads a start time at init, a join time at add and an end time at
\* commit.
Dates == {<<2018, 1, 10>>, <<2018, 2, 10>>, <<2018, 2, 11>>}
StartTimes == {<<9, 0>>}
JoinTimes == {<<9, 0>>, <<10, 30>>}
EndTimes == {<<18, 30>>}
Names == {"Alice", "Bob", "Carol"}
Messages == {"done"}

Participant(t, n) == [commit_time |-> t, name |-> n]

\* impl PartialEq for Participant: equal when the names are equal.
ParticipantEq(a, b) == a.name = b.name

\* Vec<Participant>::contains, through ParticipantEq.
Contains(ps, p) == \E i \in 1..Len(ps) : ParticipantEq(ps[i], p)

DayCommit(d, st, et, msg, ps) ==
    [date |-> d, start_time |-> st, end_time |-> et, message |-> msg,
     participants |-> ps]

\* All sequences over S of length 1..n.
SeqsUpTo(S, n) == UNION {[1..k -> S] : k \in 1..n}

(***************************************************************************)
(* The outcome of a call.                                                  *)
(***************************************************************************)
Call(op, res) ==
    [op |-> op, res |-> res,
     pre |-> working_json,  \* working.json as the call found it
     date |-> None,     \* the date handed to init
     now |-> None,      \* the clock reading handed to the call
     req |-> <<>>,      \* the name list of add / rm
     ret |-> None,      \* the DayCommit returned
     added |-> <<>>,    \* the names add returned
     file |-> None,     \* the file commit created in working/
     moved |-> {},      \* the files push moved
     dest |-> None,     \* the <<year, month>> push moved them to
     log |-> <<>>]      \* the DayCommits log returned

(***************************************************************************)
(* App::create_working_file / init.                                        *)
(***************************************************************************)
WorkingFileExists == IsSome(working_json)

\* A slip: the clock reading is stored as the end time too.
NewDayCommit_Ended(date, time) == DayCommit(date, time, Some(time), None, <<>>)

NewDayCommit(date, time) == DayCommit(date, time, None, None, <<>>)

init(date, time) ==
    IF WorkingFileExists
    THEN /\ last' = Call("init", "AlreadyInitialized")
         /\ UNCHANGED <<working_json, working_dir, archive>>
    ELSE /\ working_json' = Some(NewDayCommit(date, time))
         /\ last' = [Call("init", "Ok") EXCEPT
                        !.date = Some(date), !.now = Some(time),
                        !.ret = Some(NewDayCommit(date, time))]
         /\ UNCHANGED <<working_dir, archive>>

(***************************************************************************)
(* App::get_working_commit / status.                                       *)
(***************************************************************************)
status ==
    /\ last' = IF WorkingFileExists
               THEN [Call("status", "Ok") EXCEPT !.ret = working_json]
               ELSE Call("status", "NotInitialized")
    /\ UNCHANGED <<working_json, working_dir, archive>>

(***************************************************************************)
(* add: App::edit_working_commit with the closure of add.                  *)
(***************************************************************************)
\* The loop body of add for requested names req[i..]: a name is pushed when
\* the participants as they were BEFORE the loop (cloned_commit) do not
\* contain it.  acc is [parts, added].
RECURSIVE AddLoop(_, _, _, _, _)
AddLoop(cloned, req, now, i, acc) ==
    IF i > Len(req) THEN acc
    ELSE LET pp == Participant(now, req[i])
         IN  IF ~Contains(cloned, pp)
             THEN AddLoop(cloned, req, now, i + 1,
                          [parts |-> Append(acc.parts, pp),
                           added |-> Append(acc.added, pp.name)])
             ELSE AddLoop(cloned, req, now, i + 1, acc)

AddClosure(day_commit, req, now) ==
    AddLoop(day_commit.participants, req, now, 1,
            [parts |-> day_commit.participants, added |-> <<>>])

add(req, now) ==
    IF ~WorkingFileExists
    THEN /\ last' = Call("add", "NotInitialized")
         /\ UNCHANGED <<working_json, working_dir, archive>>
    ELSE LET old == Unwrap(working_json)
             out == AddClosure(old, req, now)
             new == [old EXCEPT !.participants = out.parts]
         IN  /\ working_json' = Some(new)
             /\ last' = [Call("add", "Ok") EXCEPT
                            !.req = req, !.now = Some(now),
                            !.ret = Some(new),
                            !.added = out.added]
             /\ UNCHANGED <<working_dir, archive>>

(***************************************************************************)
(* rm: App::edit_working_commit with the closure of rm.                    *)
(***************************************************************************)
\* A slip: only the first participant of that name is removed.
Retain_First(ps, p) ==
    LET hits == {i \in 1..Len(ps) : ps[i].name = p}
    IN  IF hits = {} THEN ps
        ELSE LET f == CHOOSE i \in hits : \A j \in hits : i <= j
             IN  SubSeq(ps, 1, f - 1) \o SubSeq(ps, f + 1, Len(ps))

Retain(ps, p) == SelectSeq(ps, LAMBDA dp : dp.name # p)

RECURSIVE RmLoop(_, _, _)
RmLoop(ps, req, i) ==
    IF i > Len(req) THEN ps
    ELSE RmLoop(Retain(ps, req[i]), req, i + 1)

rm(req) ==
    IF ~WorkingFileExists
    THEN /\ last' = Call("rm", "NotInitialized")
         /\ UNCHANGED <<working_json, working_dir, archive>>
    ELSE LET old == Unwrap(working_json)
             new == [old EXCEPT
                        !.participants = RmLoop(old.participants, req, 1)]
         IN  /\ working_json' = Some(new)
             /\ last' = [Call("rm", "Ok") EXCEPT
                            !.req = req, !.ret = Some(new)]
             /\ UNCHANGED <<working_dir, archive>>

(***************************************************************************)
(* App::remove_working_commit / reset.                                     *)
(***************************************************************************)
\* A slip: the file is removed without looking whether it exists.
reset_Unchecked ==
    /\ working_json' = None
    /\ last' = Call("reset", "Ok")
    /\ UNCHANGED <<working_dir, archive>>

\* A slip: working/ is removed with working.json.
reset_WipesDir ==
    IF ~WorkingFileExists
    THEN /\ last' = Call("reset", "NotInitialized")
         /\ UNCHANGED <<working_json, working_dir, archive>>
    ELSE /\ working_json' = None
         /\ working_dir' = None
         /\ last' = Call("reset", "Ok")
         /\ UNCHANGED archive

reset ==
    IF ~WorkingFileExists
    THEN /\ last' = Call("reset", "NotInitialized")
         /\ UNCHANGED <<working_json, working_dir, archive>>
    ELSE /\ working_json' = None
         /\ last' = Call("reset", "Ok")
         /\ UNCHANGED <<working_dir, archive>>

(***************************************************************************)
(* App::commit_a_day / commit.                                             *)
(***************************************************************************)
\* The name of a file of working/: <<d>> is "d.json", <<d, i>> is "d_i.json"
\* (date.2.to_string(), or date.2.to_string() + "_" + &i.to_string(), with
\* the extension set to json).
FileName(d, i) == IF i = 0 THEN <<d>> ELSE <<d, i>>

\* let mut i = 1; while path.exists() { path = d_i.json; i += 1 }
\* names is the set of existing file names, name the path tried, i the
\* counter.
RECURSIVE ProbeLoop(_, _, _, _)
\* A slip: the counter is raised before the name is built from it.
ProbeLoop_OffByOne(names, d, name, i) ==
    IF name \in names THEN ProbeLoop(names, d, FileName(d, i + 1), i + 1)
    ELSE name

ProbeLoop(names, d, name, i) ==
    IF name \in names THEN ProbeLoop(names, d, FileName(d, i), i + 1)
    ELSE name

\* A slip: the path is not probed, the file is always d.json.
CommitPath_NoProbe(names, day_commit) == FileName(day_commit.date[3], 0)

CommitPath(names, day_commit) ==
    ProbeLoop(names, day_commit.date[3], FileName(day_commit.date[3], 0), 1)

\* A slip: the message is not stored.
Seal_NoMessage(day_commit, end_time, message) ==
    [day_commit EXCEPT !.end_time = Some(end_time)]

\* A slip: the sealed record starts from an empty participant list.
Seal_NoParticipants(day_commit, end_time, message) ==
    [day_commit EXCEPT !.end_time = Some(end_time),
                       !.message = Some(message),
                       !.participants = <<>>]

Seal(day_commit, end_time, message) ==
    [day_commit EXCEPT !.end_time = Some(end_time),
                       !.message = Some(message)]

\* The files of working/ that hold a record (none when the directory is
\* absent), and the names of all its entries.
DirFiles == IF IsSome(working_dir) THEN Unwrap(working_dir) ELSE <<>>
Entries == DOMAIN DirFiles \cup {n \in torn : Len(n) < 3}

\* File::create(path) and the write of the record into it.
WriteFile(files, name, content) ==
    [n \in DOMAIN files \cup {name} |-> IF n = name THEN content ELSE files[n]]

commit(end_time, message) ==
    IF ~WorkingFileExists
    THEN /\ last' = Call("commit", "NotInitialized")
         /\ UNCHANGED <<working_json, working_dir, archive>>
    ELSE LET day_commit == Seal(Unwrap(working_json), end_time, message)
             path == CommitPath(Entries, day_commit)
         IN  /\ working_dir' = Some(WriteFile(DirFiles, path, day_commit))
             /\ working_json' = None
             /\ last' = [Call("commit", "Ok") EXCEPT
                            !.now = Some(end_time),
                            !.ret = Some(day_commit), !.file = Some(path)]
             /\ UNCHANGED archive

(***************************************************************************)
(* App::push_a_month / push.                                               *)
(***************************************************************************)
\* The destination of one file: <root>/<year>/<month>/<file name>, from the
\* date of the first listed record.
Target(first_day, name) == <<first_day.date[1], first_day.date[2], name>>

\* The archive after copy(origin, target) of every file of files: a file of
\* the archive with the same path is overwritten.
Copied(files, first_day) ==
    LET moved == {Target(first_day, n) : n \in DOMAIN files}
        Origin(path) == CHOOSE n \in DOMAIN files : Target(first_day, n) = path
    IN  [path \in DOMAIN archive \cup moved |->
            IF path \in moved THEN files[Origin(path)] ELSE archive[path]]

\* A slip: only the records of the first record's month are copied.
CopyAll_SameMonth(files, first_day) ==
    Copied([n \in {k \in DOMAIN files :
                      files[k].date[2] = first_day.date[2]} |-> files[n]],
           first_day)

\* for d in dir { copy(&origin, target)?; remove_file(origin)?; }
CopyAll(files, first_day) == Copied(files, first_day)

\* read_dir gives the entries in no particular order: first is the file
\* name listed first (dir[0]).
push(first) ==
    IF ~IsSome(working_dir)
    THEN /\ last' = Call("push", "NotInitialized")
         /\ UNCHANGED <<working_json, working_dir, archive>>
    ELSE IF DOMAIN DirFiles = {}
    THEN \* dir[0] on an empty Vec: index out of bounds
         /\ last' = Call("push", "Panic")
         /\ UNCHANGED <<working_json, working_dir, archive>>
    ELSE /\ first \in DOMAIN DirFiles
         /\ LET first_day == DirFiles[first]
            IN  /\ archive' = CopyAll(DirFiles, first_day)
                /\ working_dir' = Some(<<>>)
                /\ last' = [Call("push", "Ok") EXCEPT
                               !.moved = DOMAIN DirFiles,
                               !.dest = Some(<<first_day.date[1],
                                               first_day.date[2]>>)]
                /\ UNCHANGED working_json

(***************************************************************************)
(* App::get_working_directory_commit / log.                                *)
(***************************************************************************)
\* Every order read_dir may list the entries S in.
Perms(S) ==
    {o \in [1..Cardinality(S) -> S] :
        \A i, j \in 1..Cardinality(S) : o[i] = o[j] => i = j}

\* filter_map over the listing: an entry that does not decode is skipped.
Decoded(files, undecodable, order) ==
    LET ok == SelectSeq(order, LAMBDA n : n \notin undecodable)
    IN  [k \in 1..Len(ok) |-> files[ok[k]]]

\* A slip: an entry that does not decode fails the whole listing.
log_Strict(order) ==
    /\ last' = IF ~IsSome(working_dir) \/ torn # {} \/ order = <<>>
               THEN Call("log", "NotInitialized")
               ELSE [Call("log", "Ok") EXCEPT
                        !.log = Decoded(DirFiles, torn, order)]
    /\ UNCHANGED store

log(order) ==
    /\ last' = IF ~IsSome(working_dir)
               THEN Call("log", "NotInitialized")
               ELSE IF Decoded(DirFiles, torn, order) = <<>>
               THEN Call("log", "NotInitialized")
               ELSE [Call("log", "Ok") EXCEPT
                        !.log = Decoded(DirFiles, torn, order)]
    /\ UNCHANGED store

(***************************************************************************)
(* f32 arithmetic on Time and TimeDiff.                                    *)
(*                                                                         *)
(* An f32 of the magnitudes met here (below 2^11, a multiple of 2^-29) is  *)
(* [neg, int, frac]: sign, whole part, and fraction in units of 2^-29.     *)
(* Every operation gives the exact result rounded to a significand of 24   *)
(* bits, ties to even, as IEEE 754 prescribes.                             *)
(***************************************************************************)
Significand == 24
FracBits == 29
One == 2^FracBits
SixtyF32 == 60

F32(neg, int, frac) == [neg |-> neg, int |-> int, frac |-> frac]

\* The position of the leading bit of n >= 1.
Log2(n) == CHOOSE k \in 0..30 : n \div 2^k = 1

\* n / u rounded to the nearest whole number, a tie to the even one.
RoundEven(n, u) ==
    LET q == n \div u
        r == n % u
    IN  IF 2 * r > u \/ (2 * r = u /\ q % 2 = 1) THEN q + 1 ELSE q

\* The weight of the last significand bit of a value, in units of 2^-29.
Ulp(int, frac) ==
    IF int > 0 THEN 2^(Log2(int) + FracBits - (Significand - 1))
    ELSE IF frac < 2^Significand THEN 1
    ELSE 2^(Log2(frac) - (Significand - 1))

RoundF32(x) ==
    LET u == Ulp(x.int, x.frac)
        f == RoundEven(x.frac, u) * u
    IN  IF f = One THEN [x EXCEPT !.int = @ + 1, !.frac = 0]
        ELSE [x EXCEPT !.frac = f]

\* i32 as f32 and u32 as f32 (exact for the numbers met here).
FromInt(n) == IF n < 0 THEN F32(TRUE, -n, 0) ELSE F32(FALSE, n, 0)

\* (m as f32) / 60f32 for -60 < m < 60: the quotient scaled to a significand
\* of 24 bits and rounded.
Div60(m) ==
    LET a == IF m < 0 THEN -m ELSE m
        e == CHOOSE k \in 1..6 :
                 /\ a * 2^k >= SixtyF32
                 /\ \A l \in 1..(k - 1) : a * 2^l < SixtyF32
        q == RoundEven(a * 2^(e + Significand - 1), SixtyF32)
        f == q * 2^(FracBits - (Significand - 1) - e)
    IN  IF a = 0 THEN F32(m < 0, 0, 0)
        ELSE IF f = One THEN F32(m < 0, 1, 0)
        ELSE F32(m < 0, 0, f)

MagLess(x, y) == x.int < y.int \/ (x.int = y.int /\ x.frac < y.frac)

MagAdd(x, y) ==
    [int |-> x.int + y.int + (x.frac + y.frac) \div One,
     frac |-> (x.frac + y.frac) % One]

\* |x| - |y| for |x| >= |y|.
MagSub(x, y) ==
    IF x.frac >= y.frac
    THEN [int |-> x.int - y.int, frac |-> x.frac - y.frac]
    ELSE [int |-> x.int - y.int - 1, frac |-> x.frac + One - y.frac]

AddF32(x, y) ==
    LET exact ==
            IF x.neg = y.neg
            THEN F32(x.neg, MagAdd(x, y).int, MagAdd(x, y).frac)
            ELSE IF MagLess(x, y)
            THEN F32(y.neg, MagSub(y, x).int, MagSub(y, x).frac)
            ELSE F32(x.neg, MagSub(x, y).int, MagSub(x, y).frac)
    IN  RoundF32(exact)

SubF32(x, y) == AddF32(x, [y EXCEPT !.neg = ~@])

\* f * 60f32: the fraction is split so that no product leaves 32 bits.
Mul60(x) ==
    LET hi == x.frac \div 2^15
        lo == x.frac % 2^15
        a == SixtyF32 * hi + (SixtyF32 * lo) \div 2^15
        exact == F32(x.neg, SixtyF32 * x.int + a \div 2^14,
                     ((a % 2^14) * 2^15) + ((SixtyF32 * lo) % 2^15))
    IN  RoundF32(exact)

\* f as i32 truncates toward zero; f as u32 does too and turns a negative
\* value into 0.
AsI32(x) == IF x.neg THEN -x.int ELSE x.int
AsU32(x) == IF x.neg THEN 0 ELSE x.int

\* a % n of Rust: the remainder has the sign of a.
Rem(a, n) == IF a < 0 THEN -((-a) % n) ELSE a % n

\* impl From<&Time> for f32, impl From<TimeDiff> for f32.
TimeToF32(t) == AddF32(FromInt(t[1]), Div60(t[2]))

\* impl From<f32> for TimeDiff, impl From<f32> for Time.
F32ToTimeDiff(f) == <<AsI32(f), Rem(AsI32(Mul60(f)), SixtyF32)>>
F32ToTime(f) == <<AsU32(f), AsU32(Mul60(f)) % SixtyF32>>

\* impl Sub for &Time.
TimeSub(a, b) == F32ToTimeDiff(SubF32(TimeToF32(a), TimeToF32(b)))

(***************************************************************************)
(* Initial state: an empty data root, no call under way.                   *)
(***************************************************************************)
Callers == {1, 2}

\* What a caller holds in the middle of a call: where it is (pc), and the
\* locals of edit_working_commit, commit_a_day and push_a_month.
Frame(pc, op) ==
    [pc |-> pc, op |-> op,
     res |-> "",            \* the outcome, once the call has returned
     day_commit |-> None,   \* the record read and changed
     added |-> <<>>,        \* the names add returns
     path |-> None,         \* the path commit_a_day settled on
     unlinked |-> FALSE,    \* the file opened for writing was removed since
     dir |-> <<>>,          \* the listing push_a_month goes through
     first_day |-> None,    \* the record of dir[0]
     k |-> 0]               \* the position in dir

Idle == Frame("idle", "none")

Init ==
    /\ working_json = None
    /\ working_dir = None
    /\ archive = <<>>
    /\ last = Call("none", "Ok")
    /\ torn = {}
    /\ procs = [p \in Callers |-> Idle]
    /\ calc = <<>>

PartsOpen == IF WorkingFileExists THEN Len(Unwrap(working_json).participants)
             ELSE 0

Stored == Cardinality(DOMAIN DirFiles) + Cardinality(DOMAIN archive)

\* A call made in one piece: no file is left half written, no caller is in
\* the middle of a call.
Atomic == UNCHANGED <<torn, procs, calc>>

\* Every file name a listing of working/ may give first; one arbitrary name
\* when there is nothing to list.
Listed == IF DOMAIN DirFiles = {} THEN {<<0>>} ELSE DOMAIN DirFiles

\* The whole store: sessions of one participant, sealed and archived.
Next ==
    \/ \E d \in Dates, t \in StartTimes : init(d, t) /\ Atomic
    \/ status /\ Atomic
    \/ \E t \in JoinTimes \ StartTimes : add(<<"Alice">>, t) /\ Atomic
    \/ rm(<<"Alice">>) /\ Atomic
    \/ reset /\ Atomic
    \/ \E t \in EndTimes, m \in Messages :
          (WorkingFileExists => Stored < MaxFiles) /\ commit(t, m) /\ Atomic
    \/ \E order \in Perms(Entries) : log(order) /\ Atomic
    \/ \E first \in Listed : push(first) /\ Atomic

Spec == Init /\ [][Next]_vars

\* One open session with every name list.
NextSession ==
    \/ \E t \in StartTimes : init(<<2018, 1, 10>>, t) /\ Atomic
    \/ status /\ Atomic
    \/ \E req \in SeqsUpTo(Names, MaxReq), t \in JoinTimes :
          PartsOpen + Len(req) <= MaxPart /\ add(req, t) /\ Atomic
    \/ \E req \in SeqsUpTo(Names, MaxReq) : rm(req) /\ Atomic
    \/ reset /\ Atomic

SpecSession == Init /\ [][NextSession]_vars

(***************************************************************************)
(* Time - Time on drawn operands.                                          *)
(***************************************************************************)
Times == (0..MaxHour) \X (0..(SixtyF32 - 1))

EmptyRoot ==
    /\ working_json = None
    /\ working_dir = None
    /\ archive = <<>>
    /\ last = Call("none", "Ok")
    /\ torn = {}
    /\ procs = [p \in Callers |-> Idle]

InitTime ==
    /\ EmptyRoot
    /\ calc \in {[op |-> "operands", a |-> a, b |-> b, diff |-> <<0, 0>>] :
                     a \in Times, b \in Times}

sub ==
    /\ calc.op = "operands"
    /\ calc' = [calc EXCEPT !.op = "sub", !.diff = TimeSub(calc.a, calc.b)]
    /\ UNCHANGED <<working_json, working_dir, archive, last, torn, procs>>

NextTime == sub

SpecTime == InitTime /\ [][NextTime]_vars

(***************************************************************************)
(* log_message on drawn records: the total of the hours and the days and   *)
(* hours of every participant.                                             *)
(***************************************************************************)
\* impl From<TimeDiff> for f32.
TimeDiffToF32(d) == AddF32(FromInt(d[1]), Div60(d[2]))

\* Iterator::sum::<f32>(): the terms are added in order, starting from 0.
RECURSIVE SumF32(_, _, _)
SumF32(fs, i, acc) ==
    IF i > Len(fs) THEN acc ELSE SumF32(fs, i + 1, AddF32(acc, fs[i]))

\* commits.filter(end_time.is_some()).map(end_time - start_time).sum()
TotalHour(commits) ==
    LET ended == SelectSeq(commits, LAMBDA c : IsSome(c.end_time))
        hours == [k \in 1..Len(ended) |->
                     TimeDiffToF32(TimeSub(Unwrap(ended[k].end_time),
                                           ended[k].start_time))]
    IN  SumF32(hours, 1, FromInt(0))

\* The inner loop of log_message over the participants j.. of one record,
\* for the entry of one name: entry.0 += 1, and entry.1 += end_time -
\* commit_time if the record has an end time.
RECURSIVE VisitParticipants(_, _, _, _)
VisitParticipants(day_commit, name, j, entry) ==
    IF j > Len(day_commit.participants) THEN entry
    ELSE LET p == day_commit.participants[j]
             counted == [entry EXCEPT !.days = @ + 1]
             d == TimeDiffToF32(TimeSub(Unwrap(day_commit.end_time),
                                        p.commit_time))
         IN  IF p.name # name
             THEN VisitParticipants(day_commit, name, j + 1, entry)
             ELSE IF IsSome(day_commit.end_time)
             THEN VisitParticipants(day_commit, name, j + 1,
                      [counted EXCEPT !.hours = AddF32(@, d)])
             ELSE VisitParticipants(day_commit, name, j + 1, counted)

\* The outer loop: for day_commit in commits.
RECURSIVE VisitCommits(_, _, _, _)
VisitCommits(commits, name, i, entry) ==
    IF i > Len(commits) THEN entry
    ELSE VisitCommits(commits, name, i + 1,
                      VisitParticipants(commits[i], name, 1, entry))

\* participants_record: HashMap<String, (u32, f32)>.
ParticipantsRecord(commits) ==
    [n \in UNION {{commits[i].participants[j].name :
                      j \in 1..Len(commits[i].participants)} :
                  i \in 1..Len(commits)} |->
        VisitCommits(commits, n, 1, [days |-> 0, hours |-> FromInt(0)])]

\* The records log_message is given: started at 9 or 10, ended or not, with
\* no participant or one who joined at 9 or at 10.
LogStarts == {<<9, 0>>, <<10, 0>>}
LogEnds == {None} \cup {Some(t) : t \in {<<18, 0>>, <<18, 10>>, <<19, 0>>}}
LogParts == {<<>>} \cup
            {<<Participant(t, n)>> : t \in LogStarts, n \in {"Alice", "Bob"}}
LogCommits ==
    {DayCommit(<<2018, 1, 10>>, st, et, None, ps) :
        st \in LogStarts, et \in LogEnds, ps \in LogParts}

InitLog ==
    /\ EmptyRoot
    /\ calc \in {[op |-> "commits", commits |-> cs, total_hour |-> FromInt(0),
                  participants_record |-> <<>>] :
                     cs \in SeqsUpTo(LogCommits, MaxRecs)}

log_message ==
    /\ calc.op = "commits"
    /\ calc' = [calc EXCEPT
                   !.op = "log_message",
                   !.total_hour = TotalHour(calc.commits),
                   !.participants_record = ParticipantsRecord(calc.commits)]
    /\ UNCHANGED <<working_json, working_dir, archive, last, torn, procs>>

NextLog == log_message

SpecLog == InitLog /\ [][NextLog]_vars

(***************************************************************************)
(* The operations taken apart into their file system calls.  A caller p    *)
(* is one request being served; between two of its file system calls      *)
(* another caller may act, or the process may die.                         *)
(***************************************************************************)
Returned(p, res) == [procs[p] EXCEPT !.pc = "done", !.res = res]

\* What a file that holds cur (None: nothing) is after the record new is
\* written through a handle at offset 0: a file of that record, when it was
\* empty or held the same record; else a file of that record or, when the
\* record is shorter than what the file held, a file that does not decode.
Written(cur, new) ==
    IF cur = None \/ cur = new THEN {Some(new)} ELSE {Some(new), Some(None)}

\* edit_working_commit, first half: get_working_commit and the closure of
\* add.
add_read(p, req, now) ==
    /\ procs[p].pc = "idle"
    /\ procs' = [procs EXCEPT ![p] =
          IF ~WorkingFileExists
          THEN [Frame("done", "add") EXCEPT !.res = "NotInitialized"]
          ELSE IF Unwrap(working_json) = None
          THEN [Frame("done", "add") EXCEPT !.res = "Json"]
          ELSE LET old == Unwrap(working_json)
                   out == AddClosure(old, req, now)
               IN  [Frame("add_open", "add") EXCEPT
                       !.day_commit =
                           Some([old EXCEPT !.participants = out.parts]),
                       !.added = out.added]]
    /\ UNCHANGED <<store, last, torn, calc>>

\* get_working_file(write, truncate): the file is emptied when it is opened.
add_open(p) ==
    /\ procs[p].pc = "add_open"
    /\ IF ~WorkingFileExists
       THEN /\ procs' = [procs EXCEPT ![p] = Returned(p, "NotInitialized")]
            /\ UNCHANGED working_json
       ELSE /\ procs' = [procs EXCEPT ![p].pc = "add_write"]
            /\ working_json' = Some(None)
    /\ UNCHANGED <<working_dir, archive, last, torn, calc>>

\* A slip: the names are merged into what the file holds at the write.
add_write_Merge(p) ==
    /\ procs[p].pc = "add_write"
    /\ procs' = [procs EXCEPT ![p] = Returned(p, "Ok")]
    /\ working_json' =
          IF WorkingFileExists /\ Unwrap(working_json) # None
          THEN Some([Unwrap(working_json) EXCEPT !.participants =
                   @ \o SelectSeq(Unwrap(procs[p].day_commit).participants,
                           LAMBDA q : ~Contains(Unwrap(working_json)
                                                    .participants, q))])
          ELSE procs[p].day_commit
    /\ UNCHANGED <<working_dir, archive, last, torn, calc>>

\* serde_json::to_writer_pretty(file, &day_commit): a file removed since it
\* was opened is written without becoming visible again.
add_write(p) ==
    /\ procs[p].pc = "add_write"
    /\ procs' = [procs EXCEPT ![p] = Returned(p, "Ok")]
    /\ IF procs[p].unlinked \/ ~WorkingFileExists
       THEN UNCHANGED working_json
       ELSE working_json' \in Written(Unwrap(working_json),
                                     Unwrap(procs[p].day_commit))
    /\ UNCHANGED <<working_dir, archive, last, torn, calc>>

\* commit_a_day: get_working_commit, then end_time and message are set.
commit_read(p, end_time, message) ==
    /\ procs[p].pc = "idle"
    /\ procs' = [procs EXCEPT ![p] =
          IF ~WorkingFileExists
          THEN [Frame("done", "commit") EXCEPT !.res = "NotInitialized"]
          ELSE IF Unwrap(working_json) = None
          THEN [Frame("done", "commit") EXCEPT !.res = "Json"]
          ELSE [Frame("commit_mkdir", "commit") EXCEPT
                   !.day_commit = Some(Seal(Unwrap(working_json), end_time,
                                            message))]]
    /\ UNCHANGED <<store, last, torn, calc>>

\* create_dir_all(<root>/working)
commit_mkdir(p) ==
    /\ procs[p].pc = "commit_mkdir"
    /\ procs' = [procs EXCEPT ![p].pc = "commit_probe"]
    /\ working_dir' = Some(DirFiles)
    /\ UNCHANGED <<working_json, archive, last, torn, calc>>

\* while path.exists() { ... }: names are only added to working/ while the
\* loop runs, so the path it ends on is the first free one of that moment.
commit_probe(p) ==
    /\ procs[p].pc = "commit_probe"
    /\ procs' = [procs EXCEPT
                    ![p].pc = "commit_create",
                    ![p].path = Some(CommitPath(Entries,
                                                Unwrap(procs[p].day_commit)))]
    /\ UNCHANGED <<store, last, torn, calc>>

\* File::create(&path): the file is created, or emptied if it exists.
commit_create(p) ==
    /\ procs[p].pc = "commit_create"
    /\ procs' = [procs EXCEPT ![p].pc = "commit_write"]
    /\ torn' = torn \cup {Unwrap(procs[p].path)}
    /\ working_dir' = Some([n \in DOMAIN DirFiles \ {Unwrap(procs[p].path)} |->
                               DirFiles[n]])
    /\ UNCHANGED <<working_json, archive, last, calc>>

\* A slip: nothing is written into the file.
commit_write_Lost(p) ==
    /\ procs[p].pc = "commit_write"
    /\ procs' = [procs EXCEPT ![p].pc = "commit_remove"]
    /\ UNCHANGED <<store, last, torn, calc>>

\* A slip: the record written is read again from working.json.
commit_write_Reread(p) ==
    /\ procs[p].pc = "commit_write"
    /\ procs' = [procs EXCEPT ![p].pc = "commit_remove"]
    /\ LET path == Unwrap(procs[p].path)
           day_commit == Unwrap(procs[p].day_commit)
           now == IF WorkingFileExists /\ Unwrap(working_json) # None
                  THEN Seal(Unwrap(working_json), Unwrap(day_commit.end_time),
                            Unwrap(day_commit.message))
                  ELSE day_commit
       IN  /\ working_dir' = Some(WriteFile(DirFiles, path, now))
           /\ torn' = torn \ {path}
    /\ UNCHANGED <<working_json, archive, last, calc>>

\* serde_json::to_writer_pretty(commit_file, &day_commit)
commit_write(p) ==
    /\ procs[p].pc = "commit_write"
    /\ procs' = [procs EXCEPT ![p].pc = "commit_remove"]
    /\ LET path == Unwrap(procs[p].path)
           cur == IF path \in DOMAIN DirFiles THEN DirFiles[path] ELSE None
       IN  \E file \in Written(cur, Unwrap(procs[p].day_commit)) :
               IF Unwrap(file) = None
               THEN /\ torn' = torn \cup {path}
                    /\ working_dir' =
                          Some([n \in DOMAIN DirFiles \ {path} |-> DirFiles[n]])
               ELSE /\ torn' = torn \ {path}
                    /\ working_dir' =
                          Some(WriteFile(DirFiles, path, Unwrap(file)))
    /\ UNCHANGED <<working_json, archive, last, calc>>

\* A slip: a working.json that is gone already is no failure.
commit_remove_Quiet(p) ==
    /\ procs[p].pc = "commit_remove"
    /\ procs' = [q \in Callers |->
                    IF q = p THEN Returned(p, "Ok")
                    ELSE IF procs[q].pc = "add_write"
                    THEN [procs[q] EXCEPT !.unlinked = TRUE]
                    ELSE procs[q]]
    /\ working_json' = None
    /\ UNCHANGED <<working_dir, archive, last, torn, calc>>

\* self.remove_working_commit()?; Ok(day_commit)
commit_remove(p) ==
    /\ procs[p].pc = "commit_remove"
    /\ IF ~WorkingFileExists
       THEN /\ procs' = [procs EXCEPT ![p] = Returned(p, "NotInitialized")]
            /\ UNCHANGED working_json
       ELSE /\ procs' = [q \in Callers |->
                           IF q = p THEN Returned(p, "Ok")
                           ELSE IF procs[q].pc = "add_write"
                           THEN [procs[q] EXCEPT !.unlinked = TRUE]
                           ELSE procs[q]]
            /\ working_json' = None
    /\ UNCHANGED <<working_dir, archive, last, torn, calc>>

\* Two requests served at once on one open session: caller 1 adds Alice or
\* commits, caller 2 adds Bob or commits.
RaceNames == [p \in Callers |-> IF p = 1 THEN "Alice" ELSE "Bob"]

NextRace ==
    \/ \E d \in {<<2018, 1, 10>>}, t \in StartTimes :
          /\ last.op = "none"
          /\ init(d, t) /\ Atomic
    \/ \E p \in Callers, t \in JoinTimes \ StartTimes :
          last.op = "init" /\ add_read(p, <<RaceNames[p]>>, t)
    \/ \E p \in Callers : add_open(p)
    \/ \E p \in Callers : add_write(p)
    \/ \E p \in Callers, t \in EndTimes, m \in Messages :
          last.op = "init" /\ commit_read(p, t, m)
    \/ \E p \in Callers : commit_mkdir(p)
    \/ \E p \in Callers : commit_probe(p)
    \/ \E p \in Callers : commit_create(p)
    \/ \E p \in Callers : commit_write(p)
    \/ \E p \in Callers : commit_remove(p)

SpecRace == Init /\ [][NextRace]_vars

(***************************************************************************)
(* push_a_month taken apart, a copy that fails, and a process that dies.   *)
(***************************************************************************)
\* get_working_directory_entries: order is the order read_dir lists in.
push_list(p, order) ==
    /\ procs[p].pc = "idle"
    /\ procs' = [procs EXCEPT ![p] =
          IF ~IsSome(working_dir)
          THEN [Frame("done", "push") EXCEPT !.res = "NotInitialized"]
          ELSE [Frame("push_first", "push") EXCEPT !.dir = order]]
    /\ UNCHANGED <<store, last, torn, calc>>

\* get_commit_from_path(dir[0].path()) and create_dir_all(<year>/<month>);
\* the archive is kept by path, a directory without a file does not show.
push_first(p) ==
    /\ procs[p].pc = "push_first"
    /\ procs' = [procs EXCEPT ![p] =
          IF procs[p].dir = <<>> THEN Returned(p, "Panic")
          ELSE IF procs[p].dir[1] \in torn THEN Returned(p, "Json")
          ELSE IF procs[p].dir[1] \notin DOMAIN DirFiles
          THEN Returned(p, "Io")
          ELSE [procs[p] EXCEPT !.pc = "push_copy", !.k = 1,
                                !.first_day = Some(DirFiles[procs[p].dir[1]])]]
    /\ UNCHANGED <<store, last, torn, calc>>

\* A slip: the copy is skipped.
push_copy_Skip(p, ok) ==
    /\ procs[p].pc = "push_copy"
    /\ procs' = [procs EXCEPT ![p].pc = "push_remove"]
    /\ UNCHANGED <<store, last, torn, calc>>

\* copy(&origin, target)?: ok tells whether the copy succeeds; one that
\* fails leaves the target as it was.  The copy of a file that does not
\* decode does not decode.
push_copy(p, ok) ==
    /\ procs[p].pc = "push_copy"
    /\ LET origin == procs[p].dir[procs[p].k]
           target == Target(Unwrap(procs[p].first_day), origin)
       IN  IF ~ok \/ origin \notin Entries
           THEN /\ procs' = [procs EXCEPT ![p] = Returned(p, "Io")]
                /\ UNCHANGED <<archive, torn>>
           ELSE /\ procs' = [procs EXCEPT ![p].pc = "push_remove"]
                /\ IF origin \in torn
                   THEN /\ torn' = torn \cup {target}
                        /\ archive' = [path \in DOMAIN archive \ {target} |->
                                          archive[path]]
                   ELSE /\ torn' = torn \ {target}
                        /\ archive' = [path \in DOMAIN archive \cup {target} |->
                                          IF path = target
                                          THEN DirFiles[origin]
                                          ELSE archive[path]]
    /\ UNCHANGED <<working_json, working_dir, last, calc>>

\* remove_file(origin)?, and the next entry or Ok(()).
push_remove(p) ==
    /\ procs[p].pc = "push_remove"
    /\ LET origin == procs[p].dir[procs[p].k]
       IN  IF origin \notin Entries
           THEN /\ procs' = [procs EXCEPT ![p] = Returned(p, "Io")]
                /\ UNCHANGED <<working_dir, torn>>
           ELSE /\ procs' = [procs EXCEPT ![p] =
                      IF procs[p].k = Len(procs[p].dir) THEN Returned(p, "Ok")
                      ELSE [procs[p] EXCEPT !.pc = "push_copy", !.k = @ + 1]]
                /\ working_dir' = Some([n \in DOMAIN DirFiles \ {origin} |->
                                           DirFiles[n]])
                /\ torn' = torn \ {origin}
    /\ UNCHANGED <<working_json, archive, last, calc>>

\* The process dies in the middle of a call: what the call held is lost,
\* the files stay as they are.
crash(p) ==
    /\ procs[p].pc \notin {"idle", "done"}
    /\ procs' = [procs EXCEPT ![p] = Idle]
    /\ last' = [Call("crash", procs[p].pc) EXCEPT
                   !.ret = procs[p].day_commit, !.file = procs[p].path]
    /\ UNCHANGED <<store, torn, calc>>

\* The call has returned: the caller takes the outcome and is free again.
respond(p) ==
    /\ procs[p].pc = "done"
    /\ procs' = [procs EXCEPT ![p] = Idle]
    /\ last' = [Call(procs[p].op, procs[p].res) EXCEPT
                   !.ret = procs[p].day_commit, !.file = procs[p].path]
    /\ UNCHANGED <<store, torn, calc>>

\* Everything stored: records and files that hold none.
StoredAll == Stored + Cardinality(torn)

\* One caller whose calls may stop half way, on the same day of two months.
FaultDates == {<<2018, 1, 10>>, <<2018, 2, 10>>}

NextFault ==
    \/ \E d \in FaultDates, t \in StartTimes :
          procs[1].pc = "idle" /\ init(d, t) /\ Atomic
    \/ \E t \in EndTimes, m \in Messages :
          /\ WorkingFileExists => StoredAll < MaxFault
          /\ commit_read(1, t, m)
    \/ commit_mkdir(1)
    \/ commit_probe(1)
    \/ commit_create(1)
    \/ commit_write(1)
    \/ commit_remove(1)
    \/ \E order \in Perms(Entries) :
          procs[1].pc = "idle" /\ log(order) /\ Atomic
    \/ \E order \in Perms(Entries) : push_list(1, order)
    \/ push_first(1)
    \/ \E ok \in BOOLEAN : push_copy(1, ok)
    \/ push_remove(1)
    \/ crash(1)
    \/ respond(1)

SpecFault == Init /\ [][NextFault]_vars

(***************************************************************************)
(* handle_command on the text of a request.  A String is the sequence of  *)
(* its characters.                                                         *)
(***************************************************************************)
\* str::starts_with
StartsWith(s, pat) == Len(s) >= Len(pat) /\ SubSeq(s, 1, Len(pat)) = pat

\* impl From<String> for Command
CommandFrom(s) ==
    IF StartsWith(s, <<"i", "n", "i", "t">>) THEN "init"
    ELSE IF StartsWith(s, <<"a", "d", "d">>) THEN "add"
    ELSE IF StartsWith(s, <<"r", "m">>) THEN "rm"
    ELSE IF StartsWith(s, <<"s", "t", "a", "t", "u", "s">>) THEN "status"
    ELSE IF StartsWith(s, <<"c", "o", "m", "m", "i", "t">>) THEN "commit"
    ELSE IF StartsWith(s, <<"r", "e", "s", "e", "t">>) THEN "reset"
    ELSE IF StartsWith(s, <<"l", "o", "g">>) THEN "log"
    ELSE IF StartsWith(s, <<"p", "u", "s", "h">>) THEN "push"
    ELSE "help"

\* impl From<Command> for String
IntoStr(c) ==
    CASE c = "init" -> <<"i", "n", "i", "t">>
      [] c = "add" -> <<"a", "d", "d">>
      [] c = "rm" -> <<"r", "m">>
      [] c = "status" -> <<"s", "t", "a", "t", "u", "s">>
      [] c = "commit" -> <<"c", "o", "m", "m", "i", "t">>
      [] c = "reset" -> <<"r", "e", "s", "e", "t">>
      [] c = "log" -> <<"l", "o", "g">>
      [] c = "push" -> <<"p", "u", "s", "h">>
      [] c = "help" -> <<"h", "e", "l", "p">>

\* str::replace(pat, ""): every match of pat, taken from the left, is removed.
RECURSIVE Replace(_, _)
Replace(s, pat) ==
    IF s = <<>> THEN <<>>
    ELSE IF StartsWith(s, pat)
    THEN Replace(SubSeq(s, Len(pat) + 1, Len(s)), pat)
    ELSE <<s[1]>> \o Replace(Tail(s), pat)

\* str::trim
RECURSIVE TrimStart(_)
TrimStart(s) ==
    IF s # <<>> /\ s[1] = " " THEN TrimStart(Tail(s)) ELSE s

RECURSIVE TrimEnd(_)
TrimEnd(s) ==
    IF s # <<>> /\ s[Len(s)] = " " THEN TrimEnd(SubSeq(s, 1, Len(s) - 1))
    ELSE s

Trim(s) == TrimEnd(TrimStart(s))

\* str::split(' '): the pieces between the spaces, empty ones included.
RECURSIVE Split(_, _)
Split(s, piece) ==
    IF s = <<>> THEN <<piece>>
    ELSE IF s[1] = " " THEN <<piece>> \o Split(Tail(s), <<>>)
    ELSE Split(Tail(s), Append(piece, s[1]))

\* What handle_command and the *_command function it selects hand to the
\* operation: the command, the text left after replace and trim, and the
\* name list of add and rm (text.split(' ')); an empty text is answered with
\* invalid_argument_message by add, rm and commit, and no operation is called.
Dispatch(text) ==
    LET command == CommandFrom(text)
        rest == Trim(Replace(text, IntoStr(command)))
    IN  [command |-> command,
         text |-> rest,
         valid |-> command \in {"add", "rm", "commit"} => rest # <<>>,
         list |-> IF command \in {"add", "rm"} /\ rest # <<>>
                  THEN Split(rest, <<>>) ELSE <<>>]

\* The texts of the requests: a first word and up to MaxWords more, one
\* space between two words.
FirstWords == {IntoStr(c) : c \in {"init", "add", "rm", "status", "commit",
                                    "reset", "log", "push", "help"}}
MoreWords == {<<"b", "o", "b">>, <<"a", "d", "d", "i", "s", "o", "n">>, <<"f", "i", "x">>,
              <<"c", "o", "m", "m", "i", "t">>, <<"h", "o", "o", "k">>}

RECURSIVE Join(_)
Join(ws) == IF Len(ws) = 1 THEN ws[1] ELSE ws[1] \o <<" ">> \o Join(Tail(ws))

Texts ==
    FirstWords \cup
    {Join(<<f>> \o ws) : f \in FirstWords, ws \in SeqsUpTo(MoreWords, MaxWords)}

InitText ==
    /\ EmptyRoot
    /\ calc \in {[op |-> "text", text |-> t, out |-> Dispatch(<<>>)] :
                     t \in Texts}

dispatch ==
    /\ calc.op = "text"
    /\ calc' = [calc EXCEPT !.op = "dispatch", !.out = Dispatch(calc.text)]
    /\ UNCHANGED <<working_json, working_dir, archive, last, torn, procs>>

NextText == dispatch

SpecText == InitText /\ [][NextText]_vars

(***************************************************************************)
(* handle_command on the store: the token is verified, the command is     *)
(* taken from the text and its operation is called.                        *)
(***************************************************************************)
\* The verification_token of the configuration, and what a request may send.
VerificationToken == "secret"
Tokens == {VerificationToken, "guess"}

\* A slip: every token is accepted.
verify_Any(token) == TRUE

\* App::verify
verify(token) == token = VerificationToken

\* The texts of the requests sent to one store.
CommandTexts ==
    FirstWords \cup
    {Join(ws) : ws \in {<<IntoStr("add"), <<"b", "o", "b">>>>,
                        <<IntoStr("add"), <<"f", "i", "x">>>>,
                        <<IntoStr("rm"), <<"b", "o", "b">>>>,
                        <<IntoStr("commit"), <<"f", "i", "x">>>>}}

\* invalid_argument_message and help_message are answers that call no
\* operation.
Answered(command, res) ==
    /\ last' = Call(command, res)
    /\ UNCHANGED store

handle_command(token, text, date, now) ==
    /\ calc' = [op |-> "handle_command", token |-> token, text |-> text]
    /\ UNCHANGED <<torn, procs>>
    /\ IF ~verify(token)
       THEN Answered("handle_command", "InvalidToken")
       ELSE LET data == Dispatch(text)
            IN  CASE data.command = "init" -> init(date, now)
                  [] data.command = "add" ->
                        IF data.valid THEN add(data.list, now)
                        ELSE Answered("add", "InvalidArgument")
                  [] data.command = "rm" ->
                        IF data.valid THEN rm(data.list)
                        ELSE Answered("rm", "InvalidArgument")
                  [] data.command = "status" -> status
                  [] data.command = "commit" ->
                        IF data.valid THEN commit(now, data.text)
                        ELSE Answered("commit", "InvalidArgument")
                  [] data.command = "reset" -> reset
                  [] data.command = "log" ->
                        \E order \in Perms(Entries) : log(order)
                  [] data.command = "push" ->
                        \E first \in Listed : push(first)
                  [] data.command = "help" -> Answered("help", "Ok")

\* Requests with either token on one date; a commit is sent while fewer than
\* MaxFault files are stored.
NextCommand ==
    \E token \in Tokens, text \in CommandTexts, now \in JoinTimes \ StartTimes :
        /\ (/\ verify(token)
            /\ CommandFrom(text) = "commit"
            /\ WorkingFileExists) => Stored < MaxFault
        /\ handle_command(token, text, <<2018, 1, 10>>, now)

SpecCommand == Init /\ [][NextCommand]_vars

(***************************************************************************)
(* The claims.                                                             *)
(***************************************************************************)

\* C1: init (Begin) succeeds exactly when no working.json exists, and then
\* working.json holds, and the call returns, a DayCommit with the given date
\* and start time, no end time, no message and no participants; with an
\* open session it fails with AlreadyInitialized and leaves the record alone.
C1_BeginOnlyWhenClosed ==
    [][last'.op = "init" =>
        IF working_json = None
        THEN /\ last'.res = "Ok"
             /\ working_json' = Some([date |-> Unwrap(last'.date),
                                      start_time |-> Unwrap(last'.now),
                                      end_time |-> None,
                                      message |-> None,
                                      participants |-> <<>>])
             /\ last'.ret = working_json'
        ELSE /\ last'.res = "AlreadyInitialized"
             /\ working_json' = working_json]_vars

\* A session begun after an earlier one was finalized.
C1_Witness ==
    /\ last.op = "init" /\ last.res = "Ok"
    /\ IsSome(working_json)
    /\ DOMAIN DirFiles # {}

\* C2: status (Read), add and rm (Mutate) and reset (Discard) end with
\* NotInitialized exactly when the call finds no working.json, whatever
\* calls came before, and with Ok otherwise.
C2_NoOpenSessionIffAbsent ==
    [][last'.op \in {"status", "add", "rm", "reset"} =>
        /\ last'.res \in {"Ok", "NotInitialized"}
        /\ last'.res = "NotInitialized" <=> working_json = None]_vars

\* A Discard refused after the session was finalized.
C2_Witness ==
    /\ last.op = "reset" /\ last.res = "NotInitialized"
    /\ DOMAIN DirFiles # {}

\* The records of the store: the open one, the sealed ones of working/ and
\* the archived ones.
OpenRecords == IF IsSome(working_json) THEN {Unwrap(working_json)} ELSE {}
SealedRecords == {DirFiles[n] : n \in DOMAIN DirFiles}
ArchivedRecords == {archive[path] : path \in DOMAIN archive}

UniqueByName(ps) ==
    \A i, j \in 1..Len(ps) : ps[i].name = ps[j].name => i = j

\* C3: in the open record and in every sealed record no two participants
\* share a name.
C3_UniqueParticipants ==
    \A r \in OpenRecords \cup SealedRecords \cup ArchivedRecords :
        UniqueByName(r.participants)

\* The requested names that are new: not among the participants before the
\* call and not requested earlier in the same list, in request order.
NewNames(before, req) ==
    LET IsNew(i) == /\ \A k \in 1..Len(before) : before[k].name # req[i]
                    /\ \A j \in 1..(i - 1) : req[j] # req[i]
        idx == SelectSeq([i \in 1..Len(req) |-> i], IsNew)
    IN  [k \in 1..Len(idx) |-> req[idx[k]]]

\* C4: a successful add returns exactly the requested names that were not
\* present before the call, each once and in request order, and leaves the
\* participants that were present where they were, with their join times.
C4_AddedExactlyNew ==
    [][last'.op = "add" /\ last'.res = "Ok" =>
        LET before == Unwrap(working_json).participants
            after == Unwrap(working_json').participants
        IN  /\ last'.added = NewNames(before, last'.req)
            /\ Len(after) = Len(before) + Len(last'.added)
            /\ SubSeq(after, 1, Len(before)) = before]_vars

\* C5: a successful rm deletes every participant whose name is requested,
\* keeps the others in their order and changes nothing else; a requested
\* name that is not present is not an error.
C5_RemoveByName ==
    [][last'.op = "rm" /\ working_json # None =>
        LET old == Unwrap(working_json)
            Requested == {last'.req[i] : i \in DOMAIN last'.req}
            Kept(dp) == dp.name \notin Requested
        IN  /\ last'.res = "Ok"
            /\ working_json' =
                   Some([old EXCEPT
                            !.participants = SelectSeq(old.participants, Kept)])
            /\ last'.ret = working_json']_vars

\* One of three participants removed, the two others, of different join
\* times, kept.
C5_Witness ==
    /\ last.op = "rm" /\ last.res = "Ok"
    /\ LET before == Unwrap(last.pre).participants
           after == Unwrap(working_json).participants
       IN  /\ Len(before) = 3 /\ Len(after) = 2
           /\ after[1].name # after[2].name
           /\ after[1].commit_time # after[2].commit_time
\* C6: a successful commit (Finalize) leaves no working.json and adds
\* exactly one file to working/, leaving every file already there as it
\* was; a commit right after a successful one fails with NotInitialized and
\* adds no file.
C6_FinalizeAddsOneFile ==
    [][last'.op = "commit" =>
        /\ IF last'.res = "Ok"
           THEN /\ working_json' = None
                /\ Cardinality(DOMAIN DirFiles' \ DOMAIN DirFiles) = 1
                /\ \A n \in DOMAIN DirFiles :
                      n \in DOMAIN DirFiles' /\ DirFiles'[n] = DirFiles[n]
           ELSE /\ last'.res = "NotInitialized"
                /\ working_dir' = working_dir
        /\ (last.op = "commit" /\ last.res = "Ok") =>
              last'.res = "NotInitialized"]_vars

\* A session finalized into a directory that already held a file.
C6_Witness ==
    /\ last.op = "commit" /\ last.res = "Ok"
    /\ working_json = None
    /\ Cardinality(DOMAIN DirFiles) >= 2

\* d.json (<<d>>) when unused, else the first unused of d_1.json (<<d, 1>>),
\* d_2.json, ...
ExpectedName(names, d) ==
    IF <<d>> \notin names THEN <<d>>
    ELSE LET k == CHOOSE k \in 1..(Cardinality(names) + 1) :
                      /\ <<d, k>> \notin names
                      /\ \A j \in 1..(k - 1) : <<d, j>> \in names
         IN  <<d, k>>

\* C7: commit writes the sealed record to d.json, d the day of month of the
\* record, when working/ has no such file, else to the first unused of
\* d_1.json, d_2.json, ...; the file it writes did not exist before.
C7_ArchiveFileName ==
    [][last'.op = "commit" /\ last'.res = "Ok" =>
        LET name == ExpectedName(DOMAIN DirFiles, Unwrap(working_json).date[3])
        IN  /\ last'.file = Some(name)
            /\ name \notin DOMAIN DirFiles
            /\ name \in DOMAIN DirFiles'
            /\ DirFiles'[name] = Unwrap(last'.ret)]_vars

\* Three sessions of day 10, of two months: 10.json, 10_1.json, 10_2.json.
C7_Witness ==
    /\ DOMAIN DirFiles = {<<10>>, <<10, 1>>, <<10, 2>>}
    /\ last.op = "commit" /\ last.file = Some(<<10, 2>>)
    /\ DirFiles[<<10>>].date # DirFiles[<<10, 1>>].date

\* C8: the open record has neither end time nor message; every record of
\* working/ and of the archive has both.
C8_EndAndNote ==
    /\ \A r \in OpenRecords : r.end_time = None /\ r.message = None
    /\ \A r \in SealedRecords \cup ArchivedRecords :
          r.end_time # None /\ r.message # None

\* An open record with a participant beside sealed and archived records.
C8_Witness ==
    /\ \E r \in OpenRecords : r.participants # <<>>
    /\ SealedRecords # {}
    /\ ArchivedRecords # {}

\* C9: a successful push (ArchiveMonth) of a non-empty working/ leaves it
\* empty and leaves every file it held, under its name and with its
\* content, in <year>/<month>/ of the date of one listed record (the first).
C9_ArchiveMonthMovesAll ==
    [][last'.op = "push" /\ last'.res = "Ok" =>
        /\ DOMAIN DirFiles # {}
        /\ IsSome(working_dir') /\ DOMAIN DirFiles' = {}
        /\ \E f \in DOMAIN DirFiles :
              LET y == DirFiles[f].date[1]
                  m == DirFiles[f].date[2]
              IN  /\ last'.dest = Some(<<y, m>>)
                  /\ \A n \in DOMAIN DirFiles :
                        /\ <<y, m, n>> \in DOMAIN archive'
                        /\ archive'[<<y, m, n>>] = DirFiles[n]]_vars

\* Two files or more moved, one of them a record of another month than the
\* directory it went to.
C9_Witness ==
    /\ last.op = "push" /\ last.res = "Ok"
    /\ Cardinality(last.moved) >= 2
    /\ \E path \in DOMAIN archive :
          /\ path[3] \in last.moved
          /\ <<path[1], path[2]>> = Unwrap(last.dest)
          /\ archive[path].date[2] # path[2]

\* C10: push on an absent or empty working/ ends with NotInitialized and
\* changes nothing.
C10_EmptyArchiveIsTypedFailure ==
    [][last'.op = "push" /\ DOMAIN DirFiles = {} =>
        /\ last'.res = "NotInitialized"
        /\ UNCHANGED <<working_json, working_dir, archive>>]_vars
\* C11: a successful reset (Discard) deletes working.json and leaves working/
\* and the archive exactly as they were; a record enters working/ only by a
\* commit, as the sealed form of the record open at that commit, enters the
\* archive only from working/, and log returns only records of working/: the
\* discarded record reaches none of them.
C11_DiscardLeavesNoTrace ==
    [][/\ last'.op = "reset" /\ last'.res = "Ok" =>
             /\ working_json # None /\ working_json' = None
             /\ working_dir' = working_dir /\ archive' = archive
       /\ SealedRecords' \subseteq
             SealedRecords \cup
                (IF last'.op = "commit" /\ last'.res = "Ok"
                 THEN {[Unwrap(working_json) EXCEPT
                           !.end_time = last'.now,
                           !.message = Unwrap(last'.ret).message]}
                 ELSE {})
       /\ ArchivedRecords' \subseteq ArchivedRecords \cup SealedRecords
       /\ \A i \in DOMAIN last'.log : last'.log[i] \in SealedRecords]_vars

\* A session with a participant discarded beside sealed and archived
\* records.
C11_Witness ==
    /\ last.op = "reset" /\ last.res = "Ok"
    /\ Unwrap(last.pre).participants # <<>>
    /\ working_json = None
    /\ SealedRecords # {} /\ ArchivedRecords # {}
\* C20: a - b for Times a, b is the TimeDiff (h, m) of the difference of a
\* and b in minutes: h the whole hours and m the remainder minutes, both
\* truncated toward zero, so that 60 * h + m is that difference, for a
\* earlier than b and for a's minute smaller than b's as well.
MinuteOfDay(t) == SixtyF32 * t[1] + t[2]

C20_SubExact ==
    calc.op = "sub" =>
        LET d == MinuteOfDay(calc.a) - MinuteOfDay(calc.b)
        IN  /\ SixtyF32 * calc.diff[1] + calc.diff[2] = d
            /\ calc.diff[2] = Rem(d, SixtyF32)
\* The whole minutes nearest to an f32 of hours (not negative).
NearestMinute(f) ==
    Mul60(f).int + (IF 2 * Mul60(f).frac >= One THEN 1 ELSE 0)

RECURSIVE SumInts(_, _)
SumInts(ns, i) == IF i > Len(ns) THEN 0 ELSE ns[i] + SumInts(ns, i + 1)

\* C12: the total of log_message is the sum of end time - start time over
\* exactly the records that have an end time (taken to the nearest minute);
\* a record without one adds nothing.
C12_TotalIsSumOfEnded ==
    calc.op = "log_message" =>
        LET ended == SelectSeq(calc.commits, LAMBDA c : IsSome(c.end_time))
            mins == [k \in 1..Len(ended) |->
                        MinuteOfDay(Unwrap(ended[k].end_time)) -
                        MinuteOfDay(ended[k].start_time)]
        IN  NearestMinute(calc.total_hour) = SumInts(mins, 1)

\* C13: for every participant, days is the number of records that have an
\* end time and contain the participant, and hours is the sum of end time -
\* commit_time over those records (taken to the nearest minute); a record
\* without an end time adds neither a day nor hours.
C13_PerParticipant ==
    calc.op = "log_message" =>
        \A n \in DOMAIN calc.participants_record :
            LET with == SelectSeq(calc.commits,
                            LAMBDA c : /\ IsSome(c.end_time)
                                       /\ Contains(c.participants,
                                                   Participant(<<0, 0>>, n)))
                Joined(c) ==
                    (CHOOSE j \in 1..Len(c.participants) :
                         c.participants[j].name = n)
                mins == [k \in 1..Len(with) |->
                            MinuteOfDay(Unwrap(with[k].end_time)) -
                            MinuteOfDay(with[k].participants[Joined(with[k])]
                                            .commit_time)]
            IN  /\ calc.participants_record[n].days = Len(with)
                /\ NearestMinute(calc.participants_record[n].hours) =
                       SumInts(mins, 1)
\* Caller p has returned from a call of op with the outcome res.
Done(p, op, res) ==
    procs[p].op = op /\ procs[p].pc = "done" /\ procs[p].res = res

\* C15: edit_working_commit holds no lock between its read and its write:
\* when two adds of distinct names have both returned Ok, each having
\* reported its name as added, a working.json that decodes holds the record
\* of one of the callers (what that caller read, with its name pushed), so
\* the name of the other is lost whenever that caller read before the other
\* wrote.
C15_LastWriterWins ==
    (\A p \in Callers : Done(p, "add", "Ok")) =>
        /\ \A p \in Callers : procs[p].added = <<RaceNames[p]>>
        /\ WorkingFileExists /\ Unwrap(working_json) # None =>
              \E p \in Callers : working_json = procs[p].day_commit

\* Both adds returned Ok and working.json holds one participant.
C15_Witness ==
    /\ \A p \in Callers : Done(p, "add", "Ok")
    /\ \A p \in Callers : procs[p].added = <<RaceNames[p]>>
    /\ WorkingFileExists /\ Unwrap(working_json) # None
    /\ Len(Unwrap(working_json).participants) = 1

\* C16: two commits that both read working.json before either removed it
\* both write the sealed record into working/: to d.json, and to d_1.json
\* when the second probes after the first has created its file; the one
\* that removes working.json returns Ok, the other NotInitialized.
C16_DoubleFinalize ==
    (\A p \in Callers : /\ procs[p].op = "commit" /\ procs[p].pc = "done"
                        /\ IsSome(procs[p].day_commit)) =>
        /\ \E p \in Callers :
              /\ procs[p].res = "Ok"
              /\ \A q \in Callers \ {p} : procs[q].res = "NotInitialized"
        /\ \A p \in Callers :
              LET d == Unwrap(procs[p].day_commit).date[3]
              IN  /\ Unwrap(procs[p].path) \in {FileName(d, 0), FileName(d, 1)}
                  /\ FileName(d, 0) \in DOMAIN DirFiles
                  /\ Unwrap(procs[p].path) \in DOMAIN DirFiles
                  /\ DirFiles[Unwrap(procs[p].path)] =
                        Unwrap(procs[p].day_commit)

\* One session sealed twice, as 10.json and as 10_1.json.
C16_Witness ==
    /\ \A p \in Callers : /\ procs[p].op = "commit" /\ procs[p].pc = "done"
                          /\ IsSome(procs[p].day_commit)
    /\ working_json = None
    /\ DOMAIN DirFiles = {<<10>>, <<10, 1>>}
    /\ DirFiles[<<10>>] = DirFiles[<<10, 1>>]

\* C17: a commit seals the record as it read it: what an add writes into
\* working.json after that read does not reach the sealed record, although
\* the add returns Ok with the name.
C17_SealsWhatItRead ==
    \A c \in Callers :
        /\ procs[c].op = "commit"
        /\ procs[c].pc \in {"commit_remove", "done"}
        /\ IsSome(procs[c].day_commit)
        /\ \A a \in Callers \ {c} : procs[a].op # "commit"
        => /\ Unwrap(procs[c].path) \in DOMAIN DirFiles
           /\ DirFiles[Unwrap(procs[c].path)] = Unwrap(procs[c].day_commit)

\* The add returned Ok with its name, the commit returned Ok, and the name
\* is neither in the sealed record nor anywhere else.
C17_Witness ==
    \E a, c \in Callers :
        /\ Done(a, "add", "Ok") /\ procs[a].added = <<RaceNames[a]>>
        /\ Done(c, "commit", "Ok")
        /\ ~Contains(DirFiles[Unwrap(procs[c].path)].participants,
                     Participant(<<0, 0>>, RaceNames[a]))
        /\ working_json = None
\* C14: log fails with NotInitialized exactly when working/ gives no record
\* that decodes (it is absent, empty, or holds only files that do not
\* decode); otherwise it returns, in the order listed, the record of every
\* file that decodes and skips the others.  It changes nothing.
C14_LogFailsIffNothingDecodes ==
    [][last'.op = "log" /\ procs' = procs =>
          /\ last'.res \in {"Ok", "NotInitialized"}
          /\ last'.res = "NotInitialized" <=> DOMAIN DirFiles = {}
          /\ last'.res = "Ok" =>
                \E order \in Perms(DOMAIN DirFiles) :
                    last'.log = [k \in 1..Len(order) |-> DirFiles[order[k]]]
          /\ UNCHANGED <<store, torn>>]_vars

\* log has returned the one record that decodes beside a file that does not.
C14_Witness ==
    /\ last.op = "log" /\ last.res = "Ok"
    /\ procs[1].pc = "idle"
    /\ Entries \cap torn # {}
    /\ Len(last.log) = 1 /\ Cardinality(DOMAIN DirFiles) = 1

\* C18: commit writes the file of working/ before it removes working.json:
\* working.json is there when the file is written, it is removed only when
\* the file holds the sealed record, and a process that dies between the
\* two leaves both.
C18_WriteBeforeRemove ==
    [][\A p \in Callers :
          /\ procs[p].pc = "commit_write" /\ procs'[p].pc = "commit_remove" =>
                /\ WorkingFileExists /\ UNCHANGED working_json
                /\ Unwrap(procs[p].path) \in DOMAIN DirFiles'
          /\ IsSome(working_json) /\ working_json' = None =>
                \E n \in DOMAIN DirFiles :
                    /\ DirFiles' = DirFiles
                    /\ IsSome(DirFiles[n].end_time)
                    /\ DirFiles[n] =
                          [Unwrap(working_json) EXCEPT
                              !.end_time = DirFiles[n].end_time,
                              !.message = DirFiles[n].message]
          /\ procs[p].pc = "commit_remove" /\ procs'[p].pc = "idle" =>
                /\ UNCHANGED <<store, torn>>
                /\ WorkingFileExists
                /\ DirFiles[Unwrap(procs[p].path)] =
                      Unwrap(procs[p].day_commit)]_vars

\* The process died after the write and before the removal: working.json
\* and the sealed file are both there.
C18_Witness ==
    /\ last.op = "crash" /\ last.res = "commit_remove"
    /\ procs[1].pc = "idle"
    /\ WorkingFileExists
    /\ Unwrap(last.file) \in DOMAIN DirFiles
    /\ DirFiles[Unwrap(last.file)] =
          [Unwrap(working_json) EXCEPT
              !.end_time = Unwrap(last.ret).end_time,
              !.message = Unwrap(last.ret).message]

\* What is found of the file n that push listed: in working/, else at its
\* target in the archive (Some(None): a file that does not decode; None: the
\* file is nowhere).
Found(n, first_day) ==
    LET target == Target(first_day, n)
    IN  IF n \in DOMAIN DirFiles THEN Some(DirFiles[n])
        ELSE IF n \in torn THEN Some(None)
        ELSE IF target \in DOMAIN archive THEN Some(archive[target])
        ELSE IF target \in torn THEN Some(None)
        ELSE None

\* C19: push removes a file of working/ only when its copy is at the target;
\* at every step every file listed is, unchanged, in working/ or at its
\* target; and when a copy fails the files before it are at their targets
\* and no more in working/, the failing and the later ones are in working/,
\* and nothing is taken back.
C19_RemoveAfterCopy ==
    [][\A p \in Callers :
          /\ \A n \in Entries \ Entries' : \E q \in Callers :
                /\ procs[q].pc = "push_remove" /\ procs[q].dir[procs[q].k] = n
                /\ LET target == Target(Unwrap(procs[q].first_day), n)
                   IN  IF n \in torn THEN target \in torn
                       ELSE /\ target \in DOMAIN archive
                            /\ archive[target] = DirFiles[n]
          /\ procs[p].pc \in {"push_copy", "push_remove"} =>
                \A n \in {procs[p].dir[i] : i \in 1..Len(procs[p].dir)},
                   first_day \in {Unwrap(procs[p].first_day)} :
                    /\ Found(n, first_day) # None
                    /\ Found(n, first_day)' = Found(n, first_day)
          /\ procs[p].pc = "push_copy" /\ procs'[p].pc = "done" =>
                /\ UNCHANGED <<store, torn>>
                /\ \A i \in 1..Len(procs[p].dir) :
                      LET n == procs[p].dir[i]
                          target == Target(Unwrap(procs[p].first_day), n)
                      IN  IF i < procs[p].k
                          THEN /\ n \notin Entries
                               /\ target \in DOMAIN archive \cup torn
                          ELSE n \in Entries]_vars

\* The second of two copies failed: the first file is in the archive and no
\* more in working/, the second is in working/.
C19_Witness ==
    /\ Done(1, "push", "Io")
    /\ Len(procs[1].dir) = 2 /\ procs[1].k = 2
    /\ procs[1].dir[1] \notin Entries
    /\ Target(Unwrap(procs[1].first_day), procs[1].dir[1]) \in DOMAIN archive
    /\ procs[1].dir[2] \in Entries
\* C25: the operation is handed the text of the request without the leading
\* keyword, the ends trimmed: add and rm get the names that follow the
\* keyword, commit gets the note that follows it, each as written, also when
\* a name or the note contains the keyword.
C25_OnlyLeadingKeywordRemoved ==
    calc.op = "dispatch" /\ calc.out.command \in {"add", "rm", "commit"} =>
        LET keyword == IntoStr(calc.out.command)
            rest == Trim(SubSeq(calc.text, Len(keyword) + 1, Len(calc.text)))
        IN  /\ calc.out.text = rest
            /\ calc.out.command \in {"add", "rm"} /\ rest # <<>> =>
                  calc.out.list = Split(rest, <<>>)
\* C21: handle_command compares the token of the request with the configured
\* one before it calls any operation: a request whose token does not match
\* fails with InvalidToken whatever its text is and leaves the store as it
\* was, and a request whose token matches never fails with InvalidToken.
C21_TokenFirst ==
    [][/\ calc'.token # VerificationToken =>
              last'.res = "InvalidToken" /\ UNCHANGED store
       /\ calc'.token = VerificationToken => last'.res # "InvalidToken"]_vars

\* A reset sent with a wrong token to an open session with a participant.
C21_Witness ==
    /\ calc # <<>>
    /\ calc.token # VerificationToken
    /\ CommandFrom(calc.text) = "reset"
    /\ last.res = "InvalidToken"
    /\ WorkingFileExists
    /\ Unwrap(working_json).participants # <<>>
\* C22: with the calls made one at a time, what a successful commit wrote
\* stays stored as it was written, in working/ or in the archive: no step
\* changes or removes a file of the archive, and the record of every file of
\* working/ is afterwards still the record of a file of working/ or of the
\* archive.
C22_SealedRecordsStay ==
    [][/\ \A path \in DOMAIN archive :
              path \in DOMAIN archive' /\ archive'[path] = archive[path]
       /\ SealedRecords \subseteq SealedRecords' \cup ArchivedRecords']_vars
\* C24: the record a successful commit returns and writes into working/ is
\* the open record as working.json held it, but for end_time and message
\* (date, start_time and the participants with their join times, in their
\* order, are the same); a successful add or rm changes nothing of the open
\* record but its participants; init, add, rm and status never change
\* working/ or the archive; log and push never change working.json.
C24_OnlyItsOwnPart ==
    [][/\ last'.op = "commit" /\ last'.res = "Ok" =>
            LET old == Unwrap(working_json)
                ret == Unwrap(last'.ret)
            IN  /\ [ret EXCEPT !.end_time = old.end_time,
                               !.message = old.message] = old
                /\ DirFiles'[Unwrap(last'.file)] = ret
       /\ last'.op \in {"add", "rm"} /\ last'.res = "Ok" =>
            /\ IsSome(working_json')
            /\ [Unwrap(working_json') EXCEPT
                   !.participants = Unwrap(working_json).participants]
                 = Unwrap(working_json)
       /\ last'.op \in {"init", "add", "rm", "status"} =>
            working_dir' = working_dir /\ archive' = archive
       /\ last'.op \in {"log", "push"} =>
            working_json' = working_json]_vars

\* A commit of a session with two participants, made when the archive
\* already holds a record.
C24_Witness ==
    /\ last.op = "commit" /\ last.res = "Ok"
    /\ Len(Unwrap(last.ret).participants) = 2
    /\ Unwrap(last.file) \in DOMAIN DirFiles
    /\ DirFiles[Unwrap(last.file)] = Unwrap(last.ret)
    /\ archive # <<>>
\* C23: a call that returns a typed failure (AlreadyInitialized,
\* NotInitialized) has left the store as it was; in particular a commit that
\* returned NotInitialized has created no file in working/: every file of
\* working/ is the file of a commit that did not fail (procs[p].path is the
\* file the commit of caller p creates).
C23_FailureWritesNothing ==
    \A n \in Entries :
        \E p \in Callers :
            /\ procs[p].op = "commit"
            /\ procs[p].path = Some(n)
            /\ ~(/\ procs[p].pc = "done"
                 /\ procs[p].res \in {"AlreadyInitialized", "NotInitialized"})
====
